---- MODULE Spec2Model ----
(***************************************************************************)
(* Model of the `scan` command (src/cli/cmd/scan.go): read an npm          *)
(* lockfile, extract (name, version) pairs from its "packages" block,      *)
(* query the OSV API once per pair and print the vulnerable ones.          *)
(*                                                                         *)
(* Package paths are sequences of one-character strings; summaries are     *)
(* sequences of bytes (Go strings are byte strings: len and s[:n] count    *)
(* bytes).  Versions and JSON object keys other than package paths are     *)
(* only compared for equality and are kept as TLA+ strings.                *)
(***************************************************************************)
EXTENDS Integers, Sequences, FiniteSets, TLC

VARIABLES pc, file, lock, todo, out, src, deps, i, vulnCount, or,
          queries, replies, output, exitCode, osv

vars == <<pc, file, lock, todo, out, src, deps, i, vulnCount, or,
          queries, replies, output, exitCode, osv>>

(***************************************************************************)
(* Bounds                                                                  *)
(***************************************************************************)
MaxSegs == 5        \* segments of the single path of a one-entry lockfile
MaxKeys == 3        \* entries of a several-entry "packages" mapping
MaxVulns == 2       \* vulnerabilities in one OSV response
MaxExtra == 2       \* multi-byte runes / slack around the summary limit

(***************************************************************************)
(* Go strings package, over sequences                                      *)
(***************************************************************************)
HasPrefix(s, p) == Len(s) >= Len(p) /\ SubSeq(s, 1, Len(p)) = p

TrimPrefix(s, p) == IF HasPrefix(s, p) THEN SubSeq(s, Len(p) + 1, Len(s)) ELSE s

Count(s, c) == Cardinality({j \in 1..Len(s) : s[j] = c})

\* 0-based index of the first c in s, -1 when there is none
Index(s, c) ==
  IF \E j \in 1..Len(s) : s[j] = c
    THEN (CHOOSE j \in 1..Len(s) : s[j] = c /\ \A h \in 1..(j - 1) : s[h] # c) - 1
    ELSE -1

RECURSIVE SplitN(_, _, _)
SplitN(s, c, n) ==
  IF n = 1 \/ Index(s, c) < 0
    THEN <<s>>
    ELSE <<SubSeq(s, 1, Index(s, c))>>
           \o SplitN(SubSeq(s, Index(s, c) + 2, Len(s)), c, n - 1)

Split(s, c) == SplitN(s, c, Len(s) + 1)

\* the single-byte white space of unicode.IsSpace; the summaries of this model
\* hold no multi-byte white space (U+0085, U+00A0, ...)
IsSpace(b) == b \in {9, 10, 11, 12, 13, 32}

RECURSIVE TrimLeft(_)
TrimLeft(s) == IF s # <<>> /\ IsSpace(s[1]) THEN TrimLeft(Tail(s)) ELSE s

RECURSIVE TrimRight(_)
TrimRight(s) ==
  IF s # <<>> /\ IsSpace(s[Len(s)]) THEN TrimRight(SubSeq(s, 1, Len(s) - 1)) ELSE s

TrimSpace(s) == TrimRight(TrimLeft(s))

(***************************************************************************)
(* String literals of the program                                          *)
(***************************************************************************)
NodeModules == <<"n", "o", "d", "e", "_", "m", "o", "d", "u", "l", "e", "s">>
NodeModulesPrefix == NodeModules \o <<"/">>
Ellipsis == <<226, 128, 166>>       \* UTF-8 bytes of U+2026
NewLine == 10
SummaryLimit == 110

(***************************************************************************)
(* extractNpmPackages: the name derived from a path key                    *)
(***************************************************************************)
\* mutant: the root entry is not recognised
IsRoot_never(k) == FALSE

IsRoot(k) == k = <<>>

ScopedName(name) ==
  LET parts == SplitN(name, "/", 2)
  IN  IF Len(parts) = 2 THEN parts[1] \o <<"/">> \o parts[2] ELSE name

\* mutant: keeps what follows the first "/" instead of what precedes it
FirstSegment_rest(name) == SubSeq(name, Index(name, "/") + 2, Len(name))

FirstSegment(name) == SubSeq(name, 1, Index(name, "/"))

PackageName(k) ==
  LET name == TrimPrefix(k, NodeModulesPrefix)
  IN  IF HasPrefix(name, <<"@">>) /\ Count(name, "/") >= 1
        THEN ScopedName(name)
        ELSE IF Index(name, "/") >= 0 /\ ~HasPrefix(name, <<"@">>)
               THEN FirstSegment(name)
               ELSE name

\* ver, _ := entry["version"].(string)
VersionOf(entry) ==
  IF entry.hasVersion /\ entry.versionIsString THEN entry.version ELSE ""

\* mutant: a name already in the list is not appended again
AppendDep_dedup(o, d) ==
  IF \E j \in 1..Len(o) : o[j].name = d.name THEN o ELSE Append(o, d)

AppendDep(o, d) == Append(o, d)

(***************************************************************************)
(* scanCmd.Run helpers                                                     *)
(***************************************************************************)
\* mutant: only the empty name is skipped
ShouldSkip_nameOnly(d) == d.name = <<>>

ShouldSkip(d) == d.name = <<>> \/ d.version = ""

\* mutant: the empty list is not detected
NoDeps_never(ds) == FALSE

NoDeps(ds) == Len(ds) = 0

ExitFatal == 1

\* mutant: every valid JSON document decodes into the map
UnmarshalOk_anyJSON(f) == f.kind = "json"

\* json.Unmarshal(data, &lock) with lock a map[string]any
UnmarshalOk(f) == f.kind = "json" /\ f.top \in {"object", "null"}

OsvQuery(d) == [ecosystem |-> "npm", name |-> d.name, version |-> d.version]

ShortSummary(summary) ==
  LET s == Split(TrimSpace(summary), NewLine)[1]
  IN  IF Len(s) > SummaryLimit THEN SubSeq(s, 1, SummaryLimit) \o Ellipsis ELSE s

\* mutant: counts vulnerable packages instead of vulnerabilities
AddVulns_one(count, n) == count + 1

AddVulns(count, n) == count + n

\* mutant: the confirmation does not depend on the total
CleanScan_always(count) == count >= 0

CleanScan(count) == count = 0

Line(kind, d, n, items) ==
  [kind |-> kind, name |-> d.name, version |-> d.version, n |-> n, items |-> items]

NoDep == [name |-> <<>>, version |-> ""]

(***************************************************************************)
(* Inputs: lockfiles and OSV responses                                     *)
(***************************************************************************)
Segs == {NodeModules, <<"@", "s">>, <<"a">>, <<>>}

RECURSIVE Join(_)
Join(q) == IF Len(q) = 1 THEN q[1] ELSE q[1] \o <<"/">> \o Join(Tail(q))

Keys(max) == UNION {{Join(q) : q \in [1..n -> Segs]} : n \in 1..max}

\* paths of the lockfiles with several entries
MapKeys ==
  { <<>>,
    Join(<<NodeModules, <<"a">>>>),
    Join(<<NodeModules, <<"@", "s">>, <<"a">>>>),
    Join(<<NodeModules, <<"a">>, NodeModules, <<"@", "s">>, <<"a">>>>),
    Join(<<NodeModules, <<>>>>) }

\* values of the "packages" mapping
Entry(isMap, hasVersion, isString, version) ==
  [isMap |-> isMap, hasVersion |-> hasVersion, versionIsString |-> isString,
   version |-> version]

NonMapEntry == Entry(FALSE, FALSE, FALSE, "")
Entries ==
  { NonMapEntry,
    Entry(TRUE, FALSE, FALSE, ""),          \* {} : no "version"
    Entry(TRUE, TRUE, FALSE, ""),           \* {"version": 1}
    Entry(TRUE, TRUE, TRUE, "1.0.0"),       \* {"version": "1.0.0"}
    Entry(TRUE, TRUE, TRUE, "2.0.0") }      \* {"version": "2.0.0"}

\* paths and values of the lockfiles of complete runs
RunKeys ==
  { <<>>,
    Join(<<NodeModules, <<"a">>>>),
    Join(<<NodeModules, <<"@", "s">>, <<"a">>>>),
    Join(<<NodeModules, <<>>>>) }

RunEntries ==
  {NonMapEntry, Entry(TRUE, FALSE, FALSE, ""), Entry(TRUE, TRUE, TRUE, "1.0.0")}

Lock(hasPackages, isMap, packages) ==
  [hasPackages |-> hasPackages, packagesIsMap |-> isMap, packages |-> packages]

EmptyMap == [k \in {} |-> NonMapEntry]
NilLock == Lock(FALSE, FALSE, EmptyMap)

MapsOver(keys, entries, max) ==
  UNION {[ks -> entries] : ks \in {s \in SUBSET keys : Cardinality(s) <= max}}

UnrecognizedLocks == {NilLock, Lock(TRUE, FALSE, EmptyMap)}
MapLocks == {Lock(TRUE, TRUE, m) : m \in MapsOver(MapKeys, Entries, MaxKeys)}
RunLocks == {Lock(TRUE, TRUE, m) : m \in MapsOver(RunKeys, RunEntries, MaxKeys)}
OneEntryLocks ==
  {Lock(TRUE, TRUE, [k \in {key} |-> e]) : key \in Keys(MaxSegs), e \in Entries}

File(kind, top, doc) == [kind |-> kind, top |-> top, doc |-> doc]

Files ==
  {File("unreadable", "none", NilLock), File("invalid", "none", NilLock)}
    \cup {File("json", t, NilLock) : t \in {"array", "string", "number", "bool", "null"}}
    \cup {File("json", "object", l) : l \in UnrecognizedLocks \cup RunLocks}

Vuln(id, summary) == [id |-> id, summary |-> summary]

RunSummary == <<32, 97, 32, 10, 98>>
RunResponses == UNION {[1..n -> {Vuln("V", RunSummary)}] : n \in 0..MaxVulns}

(***************************************************************************)
(* scanCmd.Run                                                             *)
(***************************************************************************)
Println(l) == output' = Append(output, l)

InitRun(f, responses) ==
  /\ pc = "read"
  /\ file = f
  /\ lock = NilLock
  /\ todo = {}
  /\ out = <<>>
  /\ src = <<>>
  /\ deps = <<>>
  /\ i = 0
  /\ vulnCount = 0
  /\ or = <<>>
  /\ queries = <<>>
  /\ replies = <<>>
  /\ output = <<>>
  /\ exitCode = 0
  /\ osv = responses

Init == \E f \in Files : InitRun(f, RunResponses)

ReadFileFail ==
  /\ pc = "read"
  /\ file.kind = "unreadable"
  /\ Println(Line("read-error", NoDep, 0, <<>>))
  /\ exitCode' = ExitFatal
  /\ pc' = "exit"
  /\ UNCHANGED <<file, lock, todo, out, src, deps, i, vulnCount, or, queries, replies, osv>>

ReadFileOk ==
  /\ pc = "read"
  /\ file.kind # "unreadable"
  /\ pc' = "unmarshal"
  /\ UNCHANGED <<file, lock, todo, out, src, deps, i, vulnCount, or, queries, replies,
                 output, exitCode, osv>>

UnmarshalFail ==
  /\ pc = "unmarshal"
  /\ ~UnmarshalOk(file)
  /\ Println(Line("invalid-json", NoDep, 0, <<>>))
  /\ exitCode' = ExitFatal
  /\ pc' = "exit"
  /\ UNCHANGED <<file, lock, todo, out, src, deps, i, vulnCount, or, queries, replies, osv>>

Unmarshal ==
  /\ pc = "unmarshal"
  /\ UnmarshalOk(file)
  /\ lock' = file.doc
  /\ pc' = "extract"
  /\ UNCHANGED <<file, todo, out, src, deps, i, vulnCount, or, queries, replies,
                 output, exitCode, osv>>

(***************************************************************************)
(* extractNpmPackages, one map entry per step (Go ranges a map in an       *)
(* unspecified order)                                                      *)
(***************************************************************************)
ExtractNoPackages ==
  /\ pc = "extract"
  /\ ~lock.hasPackages \/ ~lock.packagesIsMap
  /\ deps' = <<>>
  /\ pc' = "deps"
  /\ UNCHANGED <<file, lock, todo, out, src, i, vulnCount, or, queries, replies,
                 output, exitCode, osv>>

ExtractBegin ==
  /\ pc = "extract"
  /\ lock.hasPackages /\ lock.packagesIsMap
  /\ todo' = DOMAIN lock.packages
  /\ out' = <<>>
  /\ src' = <<>>
  /\ pc' = "range"
  /\ UNCHANGED <<file, lock, deps, i, vulnCount, or, queries, replies, output, exitCode, osv>>

ExtractSkipNonMap ==
  /\ pc = "range"
  /\ \E k \in todo :
       /\ ~lock.packages[k].isMap
       /\ todo' = todo \ {k}
  /\ UNCHANGED <<pc, file, lock, out, src, deps, i, vulnCount, or, queries, replies,
                 output, exitCode, osv>>

ExtractSkipRoot ==
  /\ pc = "range"
  /\ \E k \in todo :
       /\ lock.packages[k].isMap
       /\ IsRoot(k)
       /\ todo' = todo \ {k}
  /\ UNCHANGED <<pc, file, lock, out, src, deps, i, vulnCount, or, queries, replies,
                 output, exitCode, osv>>

\* src records, beside out, the path each entry was derived from
ExtractAppend ==
  /\ pc = "range"
  /\ \E k \in todo :
       /\ lock.packages[k].isMap
       /\ ~IsRoot(k)
       /\ out' = AppendDep(out, [name |-> PackageName(k),
                                 version |-> VersionOf(lock.packages[k])])
       /\ src' = IF out' = out THEN src ELSE Append(src, k)
       /\ todo' = todo \ {k}
  /\ UNCHANGED <<pc, file, lock, deps, i, vulnCount, or, queries, replies,
                 output, exitCode, osv>>

ExtractReturn ==
  /\ pc = "range"
  /\ todo = {}
  /\ deps' = out
  /\ pc' = "deps"
  /\ UNCHANGED <<file, lock, todo, out, src, i, vulnCount, or, queries, replies,
                 output, exitCode, osv>>

Extract ==
  \/ ExtractNoPackages
  \/ ExtractBegin
  \/ ExtractSkipNonMap
  \/ ExtractSkipRoot
  \/ ExtractAppend
  \/ ExtractReturn

(***************************************************************************)
(* scanCmd.Run, after extraction                                           *)
(***************************************************************************)
NoDependencies ==
  /\ pc = "deps"
  /\ NoDeps(deps)
  /\ Println(Line("no-dependencies", NoDep, 0, <<>>))
  /\ exitCode' = 0
  /\ pc' = "exit"
  /\ UNCHANGED <<file, lock, todo, out, src, deps, i, vulnCount, or, queries, replies, osv>>

StartScan ==
  /\ pc = "deps"
  /\ ~NoDeps(deps)
  /\ Println(Line("scanning", NoDep, Len(deps), <<>>))
  /\ vulnCount' = 0
  /\ i' = 1
  /\ pc' = "scan"
  /\ UNCHANGED <<file, lock, todo, out, src, deps, or, queries, replies, exitCode, osv>>

ScanSkip ==
  /\ pc = "scan"
  /\ i <= Len(deps)
  /\ ShouldSkip(deps[i])
  /\ i' = i + 1
  /\ UNCHANGED <<pc, file, lock, todo, out, src, deps, vulnCount, or, queries, replies,
                 output, exitCode, osv>>

\* http.Post returns an error
ScanTransportFail ==
  /\ pc = "scan"
  /\ i <= Len(deps)
  /\ ~ShouldSkip(deps[i])
  /\ queries' = Append(queries, OsvQuery(deps[i]))
  /\ replies' = Append(replies, [status |-> "transport-error", vulns |-> <<>>])
  /\ Println(Line("query-failed", deps[i], 0, <<>>))
  /\ i' = i + 1
  /\ UNCHANGED <<pc, file, lock, todo, out, src, deps, vulnCount, or, exitCode, osv>>

\* the response body does not decode as osvResp
ScanDecodeFail ==
  /\ pc = "scan"
  /\ i <= Len(deps)
  /\ ~ShouldSkip(deps[i])
  /\ queries' = Append(queries, OsvQuery(deps[i]))
  /\ replies' = Append(replies, [status |-> "bad-body", vulns |-> <<>>])
  /\ Println(Line("bad-response", deps[i], 0, <<>>))
  /\ i' = i + 1
  /\ UNCHANGED <<pc, file, lock, todo, out, src, deps, vulnCount, or, exitCode, osv>>

ScanNoVulns ==
  /\ pc = "scan"
  /\ i <= Len(deps)
  /\ ~ShouldSkip(deps[i])
  /\ \E body \in osv :
       /\ Len(body) = 0
       /\ or' = body
       /\ replies' = Append(replies, [status |-> "ok", vulns |-> body])
  /\ queries' = Append(queries, OsvQuery(deps[i]))
  /\ i' = i + 1
  /\ UNCHANGED <<pc, file, lock, todo, out, src, deps, vulnCount, output, exitCode, osv>>

ScanVulns ==
  /\ pc = "scan"
  /\ i <= Len(deps)
  /\ ~ShouldSkip(deps[i])
  /\ \E body \in osv :
       /\ Len(body) > 0
       /\ or' = body
       /\ replies' = Append(replies, [status |-> "ok", vulns |-> body])
       /\ vulnCount' = AddVulns(vulnCount, Len(body))
       /\ Println(Line("vulnerable", deps[i], Len(body),
                     [j \in 1..Len(body) |->
                        [id |-> body[j].id, s |-> ShortSummary(body[j].summary)]]))
  /\ queries' = Append(queries, OsvQuery(deps[i]))
  /\ i' = i + 1
  /\ UNCHANGED <<pc, file, lock, todo, out, src, deps, exitCode, osv>>

ScanEnd ==
  /\ pc = "scan"
  /\ i > Len(deps)
  /\ IF CleanScan(vulnCount)
       THEN Println(Line("clean", NoDep, 0, <<>>))
       ELSE UNCHANGED output
  /\ exitCode' = 0
  /\ pc' = "exit"
  /\ UNCHANGED <<file, lock, todo, out, src, deps, i, vulnCount, or, queries, replies, osv>>

Scan ==
  \/ ScanSkip
  \/ ScanTransportFail
  \/ ScanDecodeFail
  \/ ScanNoVulns
  \/ ScanVulns
  \/ ScanEnd

Next ==
  \/ ReadFileFail
  \/ ReadFileOk
  \/ UnmarshalFail
  \/ Unmarshal
  \/ Extract
  \/ NoDependencies
  \/ StartScan
  \/ Scan

Spec == Init /\ [][Next]_vars

(***************************************************************************)
(* extractNpmPackages alone, on a wider set of lockfile documents          *)
(***************************************************************************)
InitExtract ==
  \E l \in UnrecognizedLocks \cup MapLocks \cup OneEntryLocks :
    /\ pc = "extract"
    /\ file = File("json", "object", l)
    /\ lock = l
    /\ todo = {}
    /\ out = <<>>
    /\ src = <<>>
    /\ deps = <<>>
    /\ i = 0
    /\ vulnCount = 0
    /\ or = <<>>
    /\ queries = <<>>
    /\ replies = <<>>
    /\ output = <<>>
    /\ exitCode = 0
    /\ osv = RunResponses

NextExtract ==
  \/ ExtractNoPackages
  \/ ExtractBegin
  \/ ExtractSkipNonMap
  \/ ExtractSkipRoot
  \/ ExtractAppend
  \/ ExtractReturn

SpecExtract == InitExtract /\ [][NextExtract]_vars

(***************************************************************************)
(* The scan of one dependency against responses with varied summaries      *)
(***************************************************************************)
EAcute == <<195, 169>>                  \* UTF-8 bytes of U+00E9

\* n copies of the byte string s
Rep(s, n) == [j \in 1..(n * Len(s)) |-> s[((j - 1) % Len(s)) + 1]]

Summaries ==
  { lead \o body \o tail :
      lead \in {<<>>, <<32, 10, 9>>},
      body \in UNION {{Rep(<<97>>, n) \o Rep(EAcute, m), Rep(EAcute, m) \o Rep(<<97>>, n)} :
                        n \in (0..MaxExtra)
                               \cup ((SummaryLimit - MaxExtra)..(SummaryLimit + MaxExtra)),
                        m \in 0..MaxExtra},
      tail \in {<<>>, <<32>>, <<10, 98>>, <<32, 10, 98, 13, 10>>} }

LeftPad == <<"l", "e", "f", "t", "-", "p", "a", "d">>
LeftPadLock ==
  Lock(TRUE, TRUE, [k \in {NodeModulesPrefix \o LeftPad} |-> Entry(TRUE, TRUE, TRUE, "1.3.0")])

InitSummary ==
  /\ pc = "scan"
  /\ file = File("json", "object", LeftPadLock)
  /\ lock = LeftPadLock
  /\ todo = {}
  /\ out = <<[name |-> LeftPad, version |-> "1.3.0"]>>
  /\ src = <<NodeModulesPrefix \o LeftPad>>
  /\ deps = out
  /\ i = 1
  /\ vulnCount = 0
  /\ or = <<>>
  /\ queries = <<>>
  /\ replies = <<>>
  /\ output = <<Line("scanning", NoDep, 1, <<>>)>>
  /\ exitCode = 0
  /\ osv = {<<Vuln("V", s)>> : s \in Summaries}

NextSummary ==
  \/ ScanVulns
  \/ ScanEnd

SpecSummary == InitSummary /\ [][NextSummary]_vars

(***************************************************************************)
(* Properties                                                              *)
(***************************************************************************)
Root == <<>>

\* the version a record holds as a string, the empty string when it holds none
RecordedVersion(e) == IF e.hasVersion /\ e.versionIsString THEN e.version ELSE ""

Eligible(d) == d.name # <<>> /\ d.version # ""

OkWithVulns(r) == r.status = "ok" /\ Len(r.vulns) > 0

IsBlock(l) == l.kind = "vulnerable"

RECURSIVE SumVulns(_)
SumVulns(rs) ==
  IF rs = <<>> THEN 0
  ELSE (IF rs[1].status = "ok" THEN Len(rs[1].vulns) ELSE 0) + SumVulns(Tail(rs))

ScanReached == i >= 1

\* C1: every path whose name, after removing a leading "node_modules/", starts
\* with "@" and contains a "/" is emitted under exactly the first two
\* "/"-delimited segments of that name.
C1_ScopedTwoSegments ==
  \A j \in 1..Len(out) :
    LET name == TrimPrefix(src[j], NodeModulesPrefix)
        segs == Split(name, "/")
    IN  (HasPrefix(name, <<"@">>) /\ Count(name, "/") >= 1)
          => out[j].name = segs[1] \o <<"/">> \o segs[2]

\* C2: once the scan loop is reached, the queries sent so far are exactly one
\* per already-visited dependency whose name and version are both non-empty,
\* in order, whatever the earlier queries returned; the loop ends only after
\* the last dependency.
C2_OneQueryPerEligibleDep ==
  ScanReached =>
    LET visited == SelectSeq(SubSeq(deps, 1, i - 1), Eligible)
    IN  /\ Len(queries) = Len(visited)
        /\ \A j \in 1..Len(visited) :
             /\ queries[j].name = visited[j].name
             /\ queries[j].version = visited[j].version
             /\ queries[j].ecosystem = "npm"
        /\ pc = "exit" => i = Len(deps) + 1

C2_Witness ==
  /\ pc = "exit"
  /\ Len(deps) = 3
  /\ Len(queries) = 2
  /\ replies[1].status = "transport-error"
  /\ \E j \in 1..Len(deps) : deps[j].version = ""

\* C3: a document without a "packages" key, or whose "packages" is not a
\* mapping, extracts to the empty list; the run prints only the
\* no-dependencies warning, sends no query and exits with code 0.
C3_UnrecognizedDocument ==
  (/\ file.kind = "json"
   /\ file.top \in {"object", "null"}
   /\ ~file.doc.hasPackages \/ ~file.doc.packagesIsMap) =>
    /\ pc \in {"read", "unmarshal", "extract", "deps", "exit"}
    /\ deps = <<>>
    /\ queries = <<>>
    /\ pc = "exit" =>
         /\ Len(output) = 1
         /\ output[1].kind = "no-dependencies"
         /\ exitCode = 0

C3_Witness ==
  /\ pc = "exit"
  /\ file.doc.hasPackages
  /\ ~file.doc.packagesIsMap
  /\ output[1].kind = "no-dependencies"

\* C4: a path "node_modules/<a>/..." with <a> not starting with "@" is emitted
\* under the name <a>, with the version of that path's own record.
C4_NestedUnscoped ==
  \A j \in 1..Len(out) :
    LET rest == SubSeq(src[j], Len(NodeModulesPrefix) + 1, Len(src[j]))
    IN  (/\ HasPrefix(src[j], NodeModulesPrefix)
         /\ \E h \in 1..Len(rest) : rest[h] = "/"
         /\ ~HasPrefix(rest, <<"@">>))
          => /\ out[j].name = Split(rest, "/")[1]
             /\ out[j].version = RecordedVersion(lock.packages[src[j]])

C4_Witness ==
  /\ pc = "deps"
  /\ \E j, h \in 1..Len(out) :
       /\ src[j] = Join(<<NodeModules, <<"a">>, NodeModules, <<"@", "s">>, <<"a">>>>)
       /\ out[j] = [name |-> <<"a">>, version |-> "2.0.0"]
       /\ src[h] = Join(<<NodeModules, <<"a">>>>)
       /\ out[h] = [name |-> <<"a">>, version |-> "1.0.0"]

\* C5: no entry of the extracted list comes from the root key "".
C5_RootNeverExtracted ==
  /\ Len(src) = Len(out)
  /\ \A j \in 1..Len(src) : src[j] # Root
  /\ pc = "deps" => Len(out) <= Cardinality(DOMAIN lock.packages \ {Root})

C5_Witness ==
  /\ pc = "deps"
  /\ Root \in DOMAIN lock.packages
  /\ lock.packages[Root] = Entry(TRUE, TRUE, TRUE, "1.0.0")
  /\ Len(out) = 2

\* a byte that continues a multi-byte UTF-8 character (10xxxxxx)
IsContinuation(b) == b \div 64 = 2

RuneCount(s) == Cardinality({j \in 1..Len(s) : ~IsContinuation(s[j])})

\* the first n characters of s
RunePrefix(s, n) ==
  LET ends == {e \in 0..Len(s) :
                 /\ RuneCount(SubSeq(s, 1, e)) <= n
                 /\ e < Len(s) => ~IsContinuation(s[e + 1])}
  IN  SubSeq(s, 1, CHOOSE e \in ends : \A f \in ends : f <= e)

PrintedSummary(summary) ==
  LET line == Split(TrimSpace(summary), NewLine)[1]
  IN  IF RuneCount(line) > SummaryLimit
        THEN RunePrefix(line, SummaryLimit) \o Ellipsis
        ELSE line

\* C6: each printed summary is the first line of the trimmed text, cut to its
\* first 110 characters plus the ellipsis when that line is longer than 110
\* characters, and unchanged when it is 110 characters or shorter.
C6_SummaryByCharacters ==
  LET blocks == SelectSeq(output, IsBlock)
      answers == SelectSeq(replies, OkWithVulns)
  IN  \A k \in 1..Len(blocks) :
        \A j \in 1..Len(blocks[k].items) :
          blocks[k].items[j].s = PrintedSummary(answers[k].vulns[j].summary)

\* C7: after the scan loop, when no reply carried a vulnerability no block is
\* printed and the last line is the clean-scan confirmation; when some reply
\* carried one, its block is printed and the confirmation is not.
C7_CleanScanOrBlocks ==
  LET blocks == SelectSeq(output, IsBlock)
      answers == SelectSeq(replies, OkWithVulns)
      clean == \E h \in 1..Len(output) : output[h].kind = "clean"
  IN  /\ pc = "scan" => ~clean
      /\ (pc = "exit" /\ ScanReached) =>
           /\ answers = <<>> =>
                /\ blocks = <<>>
                /\ output[Len(output)].kind = "clean"
           /\ answers # <<>> =>
                /\ ~clean
                /\ Len(blocks) = Len(answers)
                /\ \A k \in 1..Len(answers) : blocks[k].n = Len(answers[k].vulns)

C7_Witness ==
  /\ pc = "exit"
  /\ Len(replies) = 2
  /\ replies[1].status = "ok" /\ replies[1].vulns = <<>>
  /\ replies[2].status = "ok" /\ Len(replies[2].vulns) = 2
  /\ output[Len(output)].kind = "vulnerable"
  /\ output[Len(output)].name = queries[2].name

FatalLockfile(f) ==
  \/ f.kind = "unreadable"
  \/ f.kind = "invalid"
  \/ f.kind = "json" /\ f.top \in {"array", "string", "number", "bool"}

C9_OneEntryPerMappingKey ==
  (pc = "deps" /\ lock.hasPackages /\ lock.packagesIsMap) =>
    LET emitted == {k \in DOMAIN lock.packages : k # Root /\ lock.packages[k].isMap}
    IN  /\ Len(deps) = Cardinality(emitted)
        /\ {src[j] : j \in 1..Len(src)} = emitted
        /\ Len(src) = Len(deps)
        /\ \A j \in 1..Len(deps) :
             deps[j].version = RecordedVersion(lock.packages[src[j]])

C9_Witness ==
  /\ pc = "deps"
  /\ Len(deps) = 2
  /\ deps[1].name = deps[2].name
  /\ \E j \in 1..2 : /\ deps[j].version = ""
                     /\ lock.packages[src[j]].hasVersion
  /\ \E k \in DOMAIN lock.packages : ~lock.packages[k].isMap

\* C10: the running total equals the sum of the lengths of the vulns lists of
\* the replies that were received and decoded; failed queries and skipped
\* dependencies add nothing, so a scan whose queries all failed or were all
\* skipped ends with the clean-scan confirmation.
C10_TotalIsSumOfDecodedReplies ==
  ScanReached =>
    /\ vulnCount = SumVulns(replies)
    /\ (pc = "exit" /\ \A j \in 1..Len(replies) : replies[j].status # "ok") =>
         output[Len(output)].kind = "clean"

C10_Witness ==
  /\ pc = "exit"
  /\ Len(replies) = 2
  /\ replies[1].status = "bad-body"
  /\ replies[2].status = "ok"
  /\ vulnCount = 2

====
